---- MODULE Spec2Model ----
(***************************************************************************)
(* A model of the IMERG ingestion pipeline of src/datasources/imerg.py:    *)
(* the driver download_recent_imerg and its three stages download_imerg,   *)
(* process_imerg and upload_imerg, with the local file system, the remote  *)
(* data source and the blob container as the environment.                  *)
(***************************************************************************)
EXTENDS Integers, Sequences, FiniteSets, TLC

\* Largest number of dates between 2024-06-01 and yesterday that a run sees.
MaxDays == 2
\* Largest product version passed to download_imerg in a direct call.
MaxVersion == 8

VARIABLES
    pc,              \* position of the running call
    today,           \* datetime.date.today() of the environment
    remote,          \* blobs of the global container: a set of [name, content]
    fs,              \* local file system: path -> file
    existing_files,  \* download_recent_imerg: the up-front listing
    dates,           \* download_recent_imerg: dates the for loop has still to yield
    date,            \* download_recent_imerg: loop variable
    output_blob,     \* download_recent_imerg: blob name of the current date
    da,              \* download_recent_imerg: result of process_imerg
    fetched,         \* payloads the data source served in this run, by date
    events,          \* stage calls made so far, in order, with their outcome
    args,            \* arguments of a direct call of a stage
    ret              \* what a direct call of a stage returned or raised

vars == <<pc, today, remote, fs, existing_files, dates, date, output_blob, da,
          fetched, events, args, ret>>

----------------------------------------------------------------------------
(* Calendar dates, as pandas computes them.                                *)

StartDate == [y |-> 2024, m |-> 6, d |-> 1]
NoDate == [y |-> 0, m |-> 0, d |-> 0]

IsLeap(y) == (y % 4 = 0 /\ y % 100 # 0) \/ y % 400 = 0

DaysInMonth(y, m) ==
    IF m = 2 THEN (IF IsLeap(y) THEN 29 ELSE 28)
    ELSE IF m \in {4, 6, 9, 11} THEN 30 ELSE 31

NextDay(dt) ==
    IF dt.d < DaysInMonth(dt.y, dt.m) THEN [dt EXCEPT !.d = dt.d + 1]
    ELSE IF dt.m < 12 THEN [y |-> dt.y, m |-> dt.m + 1, d |-> 1]
    ELSE [y |-> dt.y + 1, m |-> 1, d |-> 1]

\* date - pd.DateOffset(days=1)
PrevDay(dt) ==
    IF dt.d > 1 THEN [dt EXCEPT !.d = dt.d - 1]
    ELSE IF dt.m > 1 THEN [y |-> dt.y, m |-> dt.m - 1, d |-> DaysInMonth(dt.y, dt.m - 1)]
    ELSE [y |-> dt.y - 1, m |-> 12, d |-> 31]

RECURSIVE AddDays(_, _)
AddDays(dt, n) == IF n = 0 THEN dt ELSE AddDays(NextDay(dt), n - 1)

DateLE(a, b) ==
    \/ a.y < b.y
    \/ a.y = b.y /\ a.m < b.m
    \/ a.y = b.y /\ a.m = b.m /\ a.d <= b.d

\* pd.date_range(start, end): every day from start to end, both included,
\* in ascending order; empty when end precedes start.
\* Variant: the range is yielded latest date first.
RECURSIVE date_range_descending(_, _)
date_range_descending(start, end) ==
    IF DateLE(start, end) THEN <<end>> \o date_range_descending(start, PrevDay(end))
    ELSE <<>>

RECURSIVE date_range(_, _)
date_range(start, end) ==
    IF DateLE(start, end) THEN <<start>> \o date_range(NextDay(start), end)
    ELSE <<>>

----------------------------------------------------------------------------
(* String formatting.                                                      *)

Digit(i) == <<"0", "1", "2", "3", "4", "5", "6", "7", "8", "9">>[i + 1]

\* str.format of a non-negative int: decimal digits, no padding.
RECURSIVE IntStr(_)
IntStr(n) == IF n < 10 THEN Digit(n) ELSE IntStr(n \div 10) \o Digit(n % 10)

\* %m and %d: two digits, zero padded.
Pad2(n) == Digit((n \div 10) % 10) \o Digit(n % 10)

\* %Y: four digits.
Pad4(n) == Pad2(n \div 100) \o Pad2(n % 100)

\* date.strftime('%Y-%m-%d')
StrfDashed(dt) == Pad4(dt.y) \o "-" \o Pad2(dt.m) \o "-" \o Pad2(dt.d)

\* {date:%Y%m%d}
StrfCompact(dt) == Pad4(dt.y) \o Pad2(dt.m) \o Pad2(dt.d)

StartsWith(s, prefix) ==
    Len(s) >= Len(prefix) /\ SubSeq(s, 1, Len(prefix)) = prefix

EndsWith(s, suffix) ==
    Len(s) >= Len(suffix) /\ SubSeq(s, Len(s) - Len(suffix) + 1, Len(s)) = suffix

\* f"imerg/v7/imerg-daily-late-{date.strftime('%Y-%m-%d')}.tif"
OutputBlob(dt) == "imerg/v7/imerg-daily-late-" \o StrfDashed(dt) \o ".tif"

\* Variant: the letter is appended whatever the version.
VersionLetterBuggy(version) == "B"
\* version_letter = "B" if version == 7 else ""
VersionLetter(version) == IF version = 7 THEN "B" ELSE ""

\* IMERG_BASE_URL.format(run=, date=, version=, version_letter=)
IMERG_BASE_URL(run, dt, version, version_letter) ==
    "https://gpm1.gesdisc.eosdis.nasa.gov/data/GPM_L3/GPM_3IMERGD"
       \o run \o ".0" \o IntStr(version) \o "/" \o Pad4(dt.y) \o "/" \o Pad2(dt.m)
       \o "/3B-DAY-" \o run \o ".MS.MRG.3IMERG."
       \o StrfCompact(dt) \o "-S000000-E235959.V0" \o IntStr(version)
       \o version_letter \o ".nc4"

----------------------------------------------------------------------------
(* Local files, datasets and blobs.                                        *)

\* save_path of download_imerg and path of process_imerg: the same file.
TEMP_PATH == "temp/imerg_temp.nc"
OTHER_PATH == "temp/other.nc"
Paths == {TEMP_PATH, OTHER_PATH}

CAL == "precipitationCal"
UNCAL == "precipitation"
VarNames == {CAL, UNCAL, "randomError"}
GranuleDims == {"lat", "lon", "time", "nv"}
DATETIME64 == "<M8[ns]"

\* A NetCDF dataset: its variables, its dimensions, those of length one, the
\* dtype of its time coordinate and the hour of day of its time value.
NoDs == [vars |-> {}, dims |-> {}, size1 |-> {}, time_dtype |-> "none", hour |-> 0]

\* The body of an HTTP response: the granule of a date, served in this run
\* ("run") or left on disk by an earlier one ("prev").
NoSrc == [date |-> NoDate, origin |-> "none"]
NoBody == [src |-> NoSrc, ds |-> NoDs]

NoFile == [kind |-> "absent", body |-> NoBody]
NcFile(body) == [kind |-> "nc", body |-> body]
\* opened for writing, the write did not complete
PartialFile == [kind |-> "partial", body |-> NoBody]

NoDa == [src |-> NoSrc, var |-> "none", dims |-> {}, time_dtype |-> "none", hour |-> 0]

\* da.rio.to_raster(temp_filename, driver="COG"), read back as bytes
CogBytes(a) == [src |-> a.src, var |-> a.var, dims |-> a.dims]

Blob(name, content) == [name |-> name, content |-> content]

\* requests' Response.raise_for_status: HTTPError for 4xx and 5xx.
IsHttpError(status) == status >= 400 /\ status < 600

----------------------------------------------------------------------------
(* download_imerg                                                          *)

\* Variant: the file of an earlier call is left in place.
RemoveExistingSkipped(fsv, save_path) == fsv
\* if os.path.exists(save_path): os.remove(save_path)
RemoveExisting(fsv, save_path) ==
    IF fsv[save_path].kind # "absent" THEN [fsv EXCEPT ![save_path] = NoFile]
    ELSE fsv

\* env: what the environment does during the call.
\*   remove_ok  os.remove succeeds
\*   conn_ok    requests.get returns a response (else it raises)
\*   status     status code of the response
\*   ds         dataset in the response body
\*   write_ok   f.write completes
\* Result: the file system after the call, the exception raised ("none" when
\* it returned), the URL built ("" when the call failed before building it),
\* whether os.remove was called and returned, the number of GET requests
\* made, the status of the response (0 when there was none) and the body
\* written.
download_imerg(fsv, dt, run, version, save_path, env) ==
    LET version_letter == VersionLetter(version)
        url == IMERG_BASE_URL(run, dt, version, version_letter)
        fs1 == RemoveExisting(fsv, save_path)
        body == [src |-> [date |-> dt, origin |-> "run"], ds |-> env.ds]
        removed == fs1 # fsv
    IN  IF fsv[save_path].kind # "absent" /\ ~env.remove_ok
        THEN [fs |-> fsv, raised |-> "OSError", url |-> "", removed |-> FALSE,
              gets |-> 0, status |-> 0,
              body |-> NoBody]
        ELSE IF ~env.conn_ok
        THEN [fs |-> fs1, raised |-> "ConnectionError", url |-> url,
              removed |-> removed, gets |-> 1,
              status |-> 0, body |-> NoBody]
        ELSE IF IsHttpError(env.status)
        THEN [fs |-> fs1, raised |-> "HTTPError", url |-> url, removed |-> removed,
              gets |-> 1,
              status |-> env.status, body |-> NoBody]
        ELSE IF ~env.write_ok
        THEN [fs |-> [fs1 EXCEPT ![save_path] = PartialFile], raised |-> "OSError",
              url |-> url, removed |-> removed, gets |-> 1, status |-> env.status,
              body |-> NoBody]
        ELSE [fs |-> [fs1 EXCEPT ![save_path] = NcFile(body)], raised |-> "none",
              url |-> url, removed |-> removed, gets |-> 1, status |-> env.status,
              body |-> body]

----------------------------------------------------------------------------
(* process_imerg                                                           *)

\* Variant: the two names are tried in the other order.
SelectVarFallbackFirst(ds) == IF UNCAL \in ds.vars THEN UNCAL ELSE CAL
\* "precipitationCal" if "precipitationCal" in ds else "precipitation"
SelectVar(ds) == IF CAL \in ds.vars THEN CAL ELSE UNCAL

\* da.rename({"lon": "x", "lat": "y"})
RenameDim(n) == IF n = "lon" THEN "x" ELSE IF n = "lat" THEN "y" ELSE n

\* Result: the exception raised ("none" when it returned), the variable name
\* chosen ("none" when the call failed before choosing) and the DataArray.
process_imerg(fsv, path) ==
    LET file == fsv[path]
        ds == file.body.ds
        var_name == SelectVar(ds)
        \* the precipitation variables span lat, lon and time
        var_dims == {"lat", "lon", "time"}
        fix_time == ds.time_dtype # DATETIME64
        out == [src |-> file.body.src,
                var |-> var_name,
                dims |-> {RenameDim(n) : n \in var_dims \ ds.size1},
                time_dtype |-> DATETIME64,
                hour |-> IF fix_time THEN 0 ELSE ds.hour]
    IN  IF file.kind # "nc"
        THEN [raised |-> "OpenError", var_name |-> "none", da |-> NoDa]
        ELSE IF ds.dims # GranuleDims
        THEN [raised |-> "ValueError", var_name |-> "none", da |-> NoDa]
        ELSE IF var_name \notin ds.vars
        THEN [raised |-> "KeyError", var_name |-> var_name, da |-> NoDa]
        ELSE [raised |-> "none", var_name |-> var_name, da |-> out]

----------------------------------------------------------------------------
(* upload_imerg                                                            *)

\* Variants: the upload adds an object beside the existing one; the upload
\* goes to the name of the local temporary file.
UploadBlobAppend(rem, name, content) == rem \cup {Blob(name, content)}
UploadBlobTempName(rem, name, content) == rem \cup {Blob("tmp.tif", content)}
\* get_blob_client(name).upload_blob(f, overwrite=True)
UploadBlob(rem, name, content) ==
    {b \in rem : b.name # name} \cup {Blob(name, content)}

\* env: "ok", "raster_error" (to_raster raises) or "upload_error"
\* (upload_blob raises and the container is left as it was).
upload_imerg(rem, a, output_path, env) ==
    IF env = "raster_error" THEN [remote |-> rem, raised |-> "RasterError"]
    ELSE IF env = "upload_error" THEN [remote |-> rem, raised |-> "AzureError"]
    ELSE [remote |-> UploadBlob(rem, output_path, CogBytes(a)), raised |-> "none"]

----------------------------------------------------------------------------
(* The environment.                                                        *)

Runs == {"E", "L"}
Statuses == {200, 404, 503}

\* What the data source serves during a run: a version 7 granule, a
\* version 6 granule, and a file without a precipitation variable.
GranuleV7 == [vars |-> {UNCAL, "randomError"}, dims |-> GranuleDims,
              size1 |-> {"time"}, time_dtype |-> "object", hour |-> 0]
GranuleV6 == [vars |-> {CAL, "randomError"}, dims |-> GranuleDims,
              size1 |-> {"time"}, time_dtype |-> DATETIME64, hour |-> 0]
GranuleBad == [vars |-> {"randomError"}, dims |-> GranuleDims,
               size1 |-> {"time"}, time_dtype |-> DATETIME64, hour |-> 0]
ServedDatasets == {GranuleV7, GranuleV6, GranuleBad}

\* Every dataset process_imerg may be given in a direct call.
AnyDatasets ==
    [vars : SUBSET VarNames,
     dims : {GranuleDims, GranuleDims \ {"nv"}},
     size1 : {{"time"}, {"time", "lat"}},
     time_dtype : {DATETIME64, "object"},
     hour : {0, 12}]

FetchEnvs(datasets) ==
    [remove_ok : BOOLEAN, conn_ok : BOOLEAN, status : Statuses,
     ds : datasets, write_ok : BOOLEAN]

UploadEnvs == {"ok", "raster_error", "upload_error"}

\* The calendar days a run may meet.
Days == {AddDays(StartDate, k) : k \in 0 .. MaxDays - 1}

\* A granule an earlier run left on disk or in the container.
PrevBody(dt) == [src |-> [date |-> dt, origin |-> "prev"], ds |-> GranuleV7]
PrevBlob(name, dt) ==
    Blob(name, [src |-> [date |-> dt, origin |-> "prev"], var |-> UNCAL,
                dims |-> {"x", "y"}])

NoRet == [raised |-> "none", url |-> "", removed |-> FALSE, gets |-> 0, status |-> 0,
          var_name |-> "none"]
NoArgs == [dt |-> NoDate, run |-> "L", version |-> 7, save_path |-> TEMP_PATH]

Event(dt, stage, outcome) == [date |-> dt, stage |-> stage, outcome |-> outcome]

----------------------------------------------------------------------------
(* download_recent_imerg                                                   *)

\* list_blobs(name_starts_with=prefix), names only
ListBlobs(rem, prefix) == {b.name : b \in {x \in rem : StartsWith(x.name, prefix)}}

\* Variant: the listing is not consulted.
AlreadyExistsNever(blob_name, listing) == FALSE
\* if output_blob in existing_files
AlreadyExists(blob_name, listing) == blob_name \in listing

\* Variant: the range runs through today.
RangeEndToday(now) == now
\* datetime.date.today() - pd.DateOffset(days=1)
RangeEnd(now) == PrevDay(now)

\* Variant: each stage is tried whatever the stage before it did.
AfterStageIgnoringErrors(raised, next) == next
\* inside the try block: an exception leaves the block for the handler
AfterStage(raised, next) == IF raised = "none" THEN next ELSE "except"

\* Variant: except requests.HTTPError.
CatchesHttpOnly(raised) == raised = "HTTPError"
\* except Exception: every exception a stage raises is an Exception
Catches(raised) == TRUE

\* process_imerg(): path defaults to "temp/imerg_temp.nc"
ProcessPath == TEMP_PATH

Init ==
    /\ pc = "list"
    /\ today \in {AddDays(PrevDay(StartDate), k) : k \in 0 .. MaxDays + 1}
    /\ \E have \in SUBSET Days :
         remote = {PrevBlob(OutputBlob(d), d) : d \in have}
                    \cup {PrevBlob("imerg/v6/imerg-daily-late-2024-06-01.tif", StartDate)}
    /\ \E f \in {NoFile, NcFile(PrevBody(StartDate))} :
         fs = [p \in Paths |-> IF p = TEMP_PATH THEN f ELSE NoFile]
    /\ existing_files = {}
    /\ dates = <<>>
    /\ date = NoDate
    /\ output_blob = ""
    /\ da = NoDa
    /\ fetched = {}
    /\ events = <<>>
    /\ args = NoArgs
    /\ ret = NoRet

\* lines 30-35: the listing, fetched once; a failure is not caught
List ==
    /\ pc = "list"
    /\ \E ok \in BOOLEAN :
         /\ existing_files' = IF ok THEN ListBlobs(remote, "imerg/v7") ELSE {}
         /\ pc' = IF ok THEN "range" ELSE "aborted"
         /\ events' = Append(events,
               Event(NoDate, "list", IF ok THEN "ok" ELSE "raised"))
    /\ UNCHANGED <<today, remote, fs, dates, date, output_blob, da, fetched,
                   args, ret>>

\* lines 36-38: the range is computed once, when the loop starts
Range ==
    /\ pc = "range"
    /\ dates' = date_range(StartDate, RangeEnd(today))
    /\ pc' = "for"
    /\ UNCHANGED <<today, remote, fs, existing_files, date, output_blob, da,
                   fetched, events, args, ret>>

\* line 36: the for statement yields the next date or ends the loop
ForNext ==
    /\ pc = "for"
    /\ IF dates = <<>>
       THEN /\ pc' = "done"
            /\ UNCHANGED <<dates, date>>
       ELSE /\ date' = Head(dates)
            /\ dates' = Tail(dates)
            /\ pc' = "check"
    /\ UNCHANGED <<today, remote, fs, existing_files, output_blob, da, fetched,
                   events, args, ret>>

\* lines 39-46, outside the try block: the blob name, the membership test
\* and the progress message; print raises when stdout is closed
Check ==
    /\ pc = "check"
    /\ output_blob' = OutputBlob(date)
    /\ \E print_ok \in BOOLEAN :
         LET skip == AlreadyExists(output_blob', existing_files)
         IN  /\ pc' = IF ~print_ok THEN "aborted"
                      ELSE IF skip THEN "for" ELSE "fetch"
             /\ events' = Append(events,
                   Event(date, "check",
                         IF ~print_ok THEN "raised"
                         ELSE IF skip THEN "skip" ELSE "new"))
    /\ UNCHANGED <<today, remote, fs, existing_files, dates, date, da, fetched,
                   args, ret>>

\* line 48: download_imerg(date)
Fetch ==
    /\ pc = "fetch"
    /\ \E env \in FetchEnvs(ServedDatasets) :
         LET r == download_imerg(fs, date, "L", 7, TEMP_PATH, env)
         IN  /\ fs' = r.fs
             /\ fetched' = IF r.body = NoBody THEN fetched ELSE fetched \cup {r.body}
             /\ ret' = [NoRet EXCEPT !.raised = r.raised, !.url = r.url,
                                     !.removed = r.removed, !.gets = r.gets,
                                     !.status = r.status]
             /\ events' = Append(events,
                   Event(date, "fetch", IF r.raised = "none" THEN "ok" ELSE "raised"))
             /\ pc' = AfterStage(r.raised, "process")
    /\ UNCHANGED <<today, remote, existing_files, dates, date, output_blob, da, args>>

\* line 49: da = process_imerg()
Process ==
    /\ pc = "process"
    /\ LET r == process_imerg(fs, ProcessPath)
       IN  /\ da' = r.da
           /\ ret' = [NoRet EXCEPT !.raised = r.raised, !.var_name = r.var_name]
           /\ events' = Append(events,
                 Event(date, "process", IF r.raised = "none" THEN "ok" ELSE "raised"))
           /\ pc' = AfterStage(r.raised, "upload")
    /\ UNCHANGED <<today, remote, fs, existing_files, dates, date, output_blob,
                   fetched, args>>

\* line 50: upload_imerg(da, output_blob)
Upload ==
    /\ pc = "upload"
    /\ \E env \in UploadEnvs :
         LET r == upload_imerg(remote, da, output_blob, env)
         IN  /\ remote' = r.remote
             /\ ret' = [NoRet EXCEPT !.raised = r.raised]
             /\ events' = Append(events,
                   Event(date, "upload", IF r.raised = "none" THEN "ok" ELSE "raised"))
             /\ pc' = AfterStage(r.raised, "for")
    /\ UNCHANGED <<today, fs, existing_files, dates, date, output_blob, da,
                   fetched, args>>

\* lines 51-53: the handler prints the date and the exception
Except ==
    /\ pc = "except"
    /\ \E print_ok \in BOOLEAN :
         /\ pc' = IF Catches(ret.raised) /\ print_ok THEN "for" ELSE "aborted"
         /\ events' = Append(events,
               Event(date, "except",
                     IF ~Catches(ret.raised) THEN "uncaught"
                     ELSE IF print_ok THEN "handled" ELSE "raised"))
    /\ UNCHANGED <<today, remote, fs, existing_files, dates, date, output_blob,
                   da, fetched, args, ret>>

Next == List \/ Range \/ ForNext \/ Check \/ Fetch \/ Process \/ Upload \/ Except

Spec == Init /\ [][Next]_vars

\* The run is one thread of one process: it takes its next step.
FairSpec == Spec /\ WF_vars(Next)

----------------------------------------------------------------------------
(* The container is shared: another run of the same pipeline may publish   *)
(* the artifact of a date after this run has fetched its listing.          *)

OtherDa(dt) ==
    [src |-> [date |-> dt, origin |-> "other"], var |-> UNCAL, dims |-> {"x", "y"},
     time_dtype |-> DATETIME64, hour |-> 0]

\* upload_imerg of another run, for a date this run is handling
OtherWriter ==
    /\ pc \in {"fetch", "process", "upload"}
    /\ \A i \in DOMAIN events : events[i] # Event(date, "other", "ok")
    /\ remote' = upload_imerg(remote, OtherDa(date), OutputBlob(date), "ok").remote
    /\ events' = Append(events, Event(date, "other", "ok"))
    /\ UNCHANGED <<pc, today, fs, existing_files, dates, date, output_blob, da,
                   fetched, args, ret>>

SpecShared == Init /\ [][Next \/ OtherWriter]_vars

----------------------------------------------------------------------------
(* Direct calls of download_imerg and of process_imerg.                    *)

InitFetch ==
    /\ pc = "call_download"
    /\ args \in [dt : Days, run : Runs, version : 1 .. MaxVersion, save_path : Paths]
    /\ fs \in [Paths -> {NoFile, NcFile(PrevBody(StartDate))}]
    /\ today = NoDate
    /\ remote = {}
    /\ existing_files = {}
    /\ dates = <<>>
    /\ date = NoDate
    /\ output_blob = ""
    /\ da = NoDa
    /\ fetched = {}
    /\ events = <<>>
    /\ ret = NoRet

\* download_imerg(date, run, version, save_path)
CallDownload ==
    /\ pc = "call_download"
    /\ \E env \in FetchEnvs(ServedDatasets) :
         LET r == download_imerg(fs, args.dt, args.run, args.version,
                                 args.save_path, env)
         IN  /\ fs' = r.fs
             /\ ret' = [NoRet EXCEPT !.raised = r.raised, !.url = r.url,
                                     !.removed = r.removed, !.gets = r.gets,
                                     !.status = r.status]
    /\ pc' = "download_returned"
    /\ UNCHANGED <<today, remote, existing_files, dates, date, output_blob, da,
                   fetched, events, args>>

SpecFetch == InitFetch /\ [][CallDownload]_vars

InitTransform ==
    /\ pc = "call_process"
    /\ args \in [dt : {StartDate}, run : {"L"}, version : {7}, save_path : Paths]
    /\ \E f \in {NoFile, PartialFile}
               \cup {NcFile([src |-> [date |-> StartDate, origin |-> "prev"],
                             ds |-> ds]) : ds \in AnyDatasets} :
         fs = [p \in Paths |-> f]
    /\ today = NoDate
    /\ remote = {}
    /\ existing_files = {}
    /\ dates = <<>>
    /\ date = NoDate
    /\ output_blob = ""
    /\ da = NoDa
    /\ fetched = {}
    /\ events = <<>>
    /\ ret = NoRet

\* process_imerg(path)
CallProcess ==
    /\ pc = "call_process"
    /\ LET r == process_imerg(fs, args.save_path)
       IN  /\ da' = r.da
           /\ ret' = [NoRet EXCEPT !.raised = r.raised, !.var_name = r.var_name]
    /\ pc' = "process_returned"
    /\ UNCHANGED <<today, remote, fs, existing_files, dates, date, output_blob,
                   fetched, events, args>>

SpecTransform == InitTransform /\ [][CallProcess]_vars

----------------------------------------------------------------------------
(* Properties.                                                             *)

StageNames == {"fetch", "process", "upload"}
Ended == pc \in {"done", "aborted"}
LastEvent == events[Len(events)]
Happened(dt, stage, outcome) ==
    \E i \in DOMAIN events : events[i] = Event(dt, stage, outcome)
Count(dt, stage) ==
    Cardinality({i \in DOMAIN events : events[i].date = dt /\ events[i].stage = stage})
CandidateDays == {AddDays(PrevDay(StartDate), k) : k \in 0 .. MaxDays + 1}
\* from 2024-06-01 through yesterday
InRange(dt) == DateLE(StartDate, dt) /\ DateLE(dt, today) /\ dt # today
RunSrc(dt) == [date |-> dt, origin |-> "run"]

\* C1: no stage is ever invoked for a date whose output path is in the
\* listing fetched at the start of the run.
C1_SkipListed ==
    \A i \in DOMAIN events :
        events[i].stage \in StageNames
            => OutputBlob(events[i].date) \notin existing_files

C1_Witness ==
    /\ pc = "done"
    /\ \E d1, d2 \in Days :
         /\ OutputBlob(d1) \in existing_files
         /\ Happened(d1, "check", "skip")
         /\ Happened(d2, "upload", "ok")

\* C2 as stated: no exception raised while a date is handled ends the run;
\* a run is only ever ended early by the failure of the up-front listing.
C2_NoDateAbortsRun ==
    pc = "aborted" => LastEvent.stage = "list"

\* C2 amended: an exception raised by fetch, transform or publish reaches
\* the handler; once the handler has printed, the loop goes on with the next
\* date of the range (or ends when there is none); a run is ended early only
\* by an exception raised outside the try block: the listing, the lines
\* before the try, or the handler's own prints.
C2_StageFailureIsolated ==
    /\ \A i \in DOMAIN events :
         (events[i].stage \in StageNames /\ events[i].outcome = "raised") =>
            IF i = Len(events) THEN pc = "except"
            ELSE /\ events[i + 1].stage = "except"
                 /\ events[i + 1].date = events[i].date
                 /\ events[i + 1].outcome \in {"handled", "raised"}
                 /\ events[i + 1].outcome = "handled" =>
                      IF i + 1 = Len(events)
                      THEN \/ pc = "for" /\ dates = date_range(NextDay(events[i].date),
                                                               PrevDay(today))
                           \/ pc = "check" /\ date = NextDay(events[i].date)
                           \/ pc = "done" /\ events[i].date = PrevDay(today)
                      ELSE /\ events[i + 2].stage = "check"
                           /\ events[i + 2].date = NextDay(events[i].date)
    /\ pc = "aborted" =>
         /\ LastEvent.stage \in {"list", "check", "except"}
         /\ LastEvent.outcome = "raised"

C2_Witness ==
    \E i \in DOMAIN events :
        /\ events[i] = Event(StartDate, "fetch", "raised")
        /\ ret.raised = "none"
        /\ Happened(StartDate, "except", "handled")
        /\ Happened(NextDay(StartDate), "upload", "ok")

\* C3: a date that was absent from the listing and whose fetch, transform
\* and publish all succeeded has its output path in remote storage, holding
\* a raster of a variable of the payload fetched for that date in this run.
C3_Published ==
    \A d \in CandidateDays :
        ( /\ Happened(d, "check", "new")
          /\ Happened(d, "fetch", "ok")
          /\ Happened(d, "process", "ok")
          /\ Happened(d, "upload", "ok") ) =>
        \E b \in remote :
            /\ b.name = "imerg/v7/imerg-daily-late-" \o StrfDashed(d) \o ".tif"
            /\ b.content.src = RunSrc(d)
            /\ b.content.dims = {"x", "y"}
            /\ \E body \in fetched :
                 body.src = RunSrc(d) /\ b.content.var \in body.ds.vars

C3_Witness ==
    /\ Ended
    /\ Happened(StartDate, "upload", "ok")
    /\ Happened(NextDay(StartDate), "process", "raised")

\* C4: remote storage never holds two objects under one name, and never two
\* artifacts of the same date.
C4_OneArtifactPerDate ==
    /\ \A b1, b2 \in remote : b1.name = b2.name => b1 = b2
    /\ \A d \in CandidateDays :
         Cardinality({b \in remote : /\ StartsWith(b.name, "imerg/v7")
                                      /\ b.content.src.date = d}) <= 1

\* another run published a date after the listing and this run then
\* published the same date over it
C4_Witness ==
    \E i, j \in DOMAIN events :
        /\ i < j
        /\ events[i].stage = "other"
        /\ events[j] = Event(events[i].date, "upload", "ok")
        /\ \E b \in remote : b.name = OutputBlob(events[i].date)
                               /\ b.content.src.origin = "run"

\* C5: the URL ends in V07B for version 7 and in V0<version>, with no
\* letter, for every other version (V06 for version 6), in both run modes.
C5_VersionSuffix ==
    (pc = "download_returned" /\ ret.url # "") =>
        /\ args.version = 7 => EndsWith(ret.url, "-S000000-E235959.V07B.nc4")
        /\ args.version = 6 => EndsWith(ret.url, "-S000000-E235959.V06.nc4")
        /\ args.version # 7 =>
             EndsWith(ret.url, "-S000000-E235959.V0" \o IntStr(args.version) \o ".nc4")
        /\ StartsWith(ret.url,
             "https://gpm1.gesdisc.eosdis.nasa.gov/data/GPM_L3/GPM_3IMERGD" \o args.run)

C5_Witness ==
    /\ pc = "download_returned"
    /\ args.version = 6
    /\ args.run = "E"
    /\ ret.url # ""

\* C6: of a dataset that opens and has the granule's dimensions,
\* process_imerg takes precipitationCal when it is there, precipitation only
\* when precipitationCal is not, and raises a lookup error when neither is.
C6_VariableChoice ==
    LET file == fs[args.save_path]
        ds == file.body.ds
    IN  (pc = "process_returned" /\ file.kind = "nc" /\ ds.dims = GranuleDims) =>
          /\ "precipitationCal" \in ds.vars =>
               ret.raised = "none" /\ da.var = "precipitationCal"
          /\ ("precipitationCal" \notin ds.vars /\ "precipitation" \in ds.vars) =>
               ret.raised = "none" /\ da.var = "precipitation"
          /\ ("precipitationCal" \notin ds.vars /\ "precipitation" \notin ds.vars) =>
               ret.raised = "KeyError" /\ da = NoDa
          /\ da.var = "precipitation" => "precipitationCal" \notin ds.vars

C6_Witness ==
    /\ pc = "process_returned"
    /\ {"precipitationCal", "precipitation"} \subseteq fs[args.save_path].body.ds.vars
    /\ da.var = "precipitationCal"

\* C7: dates are handled in ascending order, one at a time: every stage call
\* follows the success of the stage before it for the same date, and the
\* first step for a date follows the end of the date before it.
Finished(e) ==
    \/ e.stage = "check" /\ e.outcome = "skip"
    \/ e.stage = "upload" /\ e.outcome = "ok"
    \/ e.stage = "except" /\ e.outcome = "handled"

C7_SerialInOrder ==
    \A i \in DOMAIN events :
        LET e == events[i]
        IN  IF i = 1 THEN e.stage = "list"
            ELSE LET before == events[i - 1]
                 IN  CASE e.stage = "check" ->
                            \/ before = Event(NoDate, "list", "ok") /\ e.date = StartDate
                            \/ /\ before.date # NoDate
                               /\ e.date = NextDay(before.date)
                               /\ Finished(before)
                       [] e.stage = "fetch" -> before = Event(e.date, "check", "new")
                       [] e.stage = "process" -> before = Event(e.date, "fetch", "ok")
                       [] e.stage = "upload" -> before = Event(e.date, "process", "ok")
                       [] e.stage = "except" ->
                            /\ before.date = e.date
                            /\ before.stage \in StageNames
                            /\ before.outcome = "raised"
                       [] OTHER -> FALSE

C7_Witness ==
    /\ pc = "done"
    /\ Happened(StartDate, "upload", "ok")
    /\ Happened(NextDay(StartDate), "fetch", "raised")
    /\ Happened(NextDay(StartDate), "except", "handled")

\* C8: a call whose GET is answered with an error status raises HTTPError
\* after that one GET, leaves no file at save_path and changes no other file.
C8_HttpErrorLeavesNoFile ==
    [][(pc' = "download_returned" /\ ret'.status >= 400) =>
          /\ ret'.raised = "HTTPError"
          /\ ret'.gets = 1
          /\ fs'[args.save_path].kind = "absent"
          /\ \A p \in Paths \ {args.save_path} : fs'[p] = fs[p]]_vars

C8_Witness ==
    /\ pc = "download_returned"
    /\ ret.status = 404
    /\ ret.removed
    /\ fs[args.save_path] = NoFile

\* C9: whenever process_imerg is about to be called, temp/imerg_temp.nc
\* holds the payload fetched in this run for the current date; a blob
\* written in this run lies at the path of the date of its payload.
C9_TempFileIsCurrent ==
    /\ pc = "process" =>
         /\ fs["temp/imerg_temp.nc"].kind = "nc"
         /\ fs["temp/imerg_temp.nc"].body.src = RunSrc(date)
         /\ fs["temp/imerg_temp.nc"].body \in fetched
    /\ \A b \in remote :
         b.content.src.origin = "run" => b.name = OutputBlob(b.content.src.date)

C9_Witness ==
    /\ pc = "process"
    /\ date = NextDay(StartDate)
    /\ Happened(StartDate, "fetch", "ok")
    /\ Happened(StartDate, "upload", "raised")

\* C10 as stated: a run whose listing succeeded ends having visited every
\* date from 2024-06-01 through yesterday exactly once.
C10_EndsAfterEveryDate ==
    (Ended /\ events # <<>> /\ events[1].outcome = "ok") =>
        \A d \in CandidateDays : InRange(d) => Count(d, "check") = 1

\* C10 amended: the run ends; it is ended early only by an exception raised
\* outside the try block; a run that ends normally has visited every date
\* from 2024-06-01 through yesterday, and no other, exactly once; no stage
\* is attempted twice for a date; no stage is invoked when yesterday precedes
\* 2024-06-01.
C10_Bounded ==
    /\ \A i \in DOMAIN events : events[i].date # NoDate => InRange(events[i].date)
    /\ \A d \in CandidateDays : \A st \in StageNames \cup {"check"} : Count(d, st) <= 1
    /\ pc = "done" => \A d \in CandidateDays : InRange(d) => Count(d, "check") = 1
    /\ pc = "aborted" =>
         /\ LastEvent.stage \in {"list", "check", "except"}
         /\ LastEvent.outcome = "raised"
    /\ (today = StartDate \/ today = PrevDay(StartDate)) =>
         \A i \in DOMAIN events : events[i].stage = "list"

C10_Terminates == <>Ended /\ []C10_Bounded

C10_Witness ==
    /\ pc = "done"
    /\ today = AddDays(StartDate, 2)
    /\ Happened(StartDate, "process", "raised")
    /\ Happened(NextDay(StartDate), "upload", "ok")

====
